---- MODULE Spec2Model ----
(***************************************************************************)
(* Model of FinalProject.py, a Streamlit dashboard over the Forbes Global  *)
(* 2000 table.  Streamlit re-executes the whole script on every widget     *)
(* interaction, so one script run (load -> clean -> filter -> render) is   *)
(* one action; the widget values and the CSV file are the only state that  *)
(* outlives a run.                                                         *)
(*                                                                         *)
(* Quantities are in tenths of a billion (5.0 is 50), coordinates in       *)
(* tenths of a degree, so that decimal cells can be parsed with integers.  *)
(* A text cell is a sequence of characters.                                *)
(***************************************************************************)
EXTENDS Integers, Sequences, FiniteSets, TLC

VARIABLES source, continent_choice, country_choice, min_mv, status, bound,
          rendered, raw_df, df, continent_counts, continents, countries,
          continent_df, region_df, country_df

vars == <<source, continent_choice, country_choice, min_mv, status, bound,
          rendered, raw_df, df, continent_counts, continents, countries,
          continent_df, region_df, country_df>>

\* ------------------------------------------------------------------ bounds

\* Largest number of data lines in the CSV file.
MaxRows == 2

\* ------------------------------------------------------------ column names

RawNumCols ==
    {"Sales ($billion)", "Profits ($billion)", "Assets ($billion)",
     "Market Value ($billion)"}

GeoCols == {"Latitude_final", "Longitude_final"}

CatCols == {"Company", "Country", "Continent"}

\* The header of a well-formed file.
AllColumns == {"Global Rank"} \cup CatCols \cup RawNumCols \cup GeoCols

\* The sentinel of both select boxes.
All == "All"

\* pandas' missing marker in a text column.
NA == "<NA>"

\* pandas' missing marker in a float column, and a present float.
NaN == [ok |-> FALSE, v |-> 0]

Present(x) == [ok |-> TRUE, v |-> x]

\* sorted() over the names that can occur: alphabetical order.
ContinentOrder == <<"Asia", "Europe">>

CountryOrder == <<"France", "Japan">>

CompanyOf == <<"Acme", "Bolt", "Cyan", "Dune">>

\* ------------------------------------------------------------ generic help

Range(s) == {s[i] : i \in 1..Len(s)}

Indices(rows) == {rows[i].idx : i \in 1..Len(rows)}

\* data[mask]: boolean-mask selection keeps the rows, their labels and
\* their order.
Mask(data, rows) == [columns |-> data.columns, rows |-> rows]

EmptyFrame == [columns |-> {}, rows |-> <<>>]

Empty(data) == data.rows = <<>>

\* ---------------------------------------------------------------- the file

Digits == {"0", "1", "2", "3", "4", "5", "6", "7", "8", "9"}

DigitVal == ("0" :> 0) @@ ("1" :> 1) @@ ("2" :> 2) @@ ("3" :> 3) @@
            ("4" :> 4) @@ ("5" :> 5) @@ ("6" :> 6) @@ ("7" :> 7) @@
            ("8" :> 8) @@ ("9" :> 9)

GoodLine(continent, country, mv) ==
    [col \in AllColumns \ {"Global Rank", "Company"} |->
        CASE col = "Continent" -> continent
          [] col = "Country" -> country
          [] col = "Market Value ($billion)" -> mv
          [] col = "Sales ($billion)" -> <<"2", "0">>
          [] col = "Profits ($billion)" -> <<"-", "3">>
          [] col = "Assets ($billion)" -> <<"1", "5", ".", "5">>
          [] col = "Latitude_final" -> <<"3", "5", ".", "6">>
          [] col = "Longitude_final" -> <<"-", "3", ".", "5">>]

With(line, col, cell) == [line EXCEPT ![col] = cell]

\* (continent, country) of a line; "" is an empty cell.
Places == {<<"Asia", "Japan">>, <<"Europe", "France">>, <<"Europe", "Japan">>,
           <<"", "France">>, <<"Asia", "">>}

BaseLine == GoodLine("Asia", "Japan", <<"1", "0">>)

\* The lines a file is made of: every place, market values below, on and
\* above a slider step, and one line per way a numeric cell can be empty or
\* malformed.  Cells carry at most one decimal.
Lines ==
    {GoodLine(p[1], p[2], <<"1", "0">>) : p \in Places}
    \cup {GoodLine("Asia", "Japan", <<"5">>),
          GoodLine("Asia", "Japan", <<"2", "5">>),
          With(BaseLine, "Market Value ($billion)", <<>>),
          With(BaseLine, "Latitude_final", <<>>),
          With(BaseLine, "Longitude_final", <<"1", "x">>),
          With(With(With(BaseLine, "Latitude_final", <<"-">>),
                    "Longitude_final", <<>>),
               "Market Value ($billion)", <<"n", "/", "a">>),
          With(With(With(BaseLine, "Sales ($billion)", <<"1", ".", "5", ".">>),
                    "Profits ($billion)", <<>>),
               "Assets ($billion)", <<"n", "/", "a">>)}

\* Rank and company are the line's position in the file.
Numbered(lines) ==
    [i \in 1..Len(lines) |->
        [col \in AllColumns |->
            CASE col = "Global Rank" -> i
              [] col = "Company" -> CompanyOf[i]
              [] OTHER -> lines[i][col]]]

SeqsUpTo(S, n) == UNION {[1..k -> S] : k \in 0..n}

\* A file with its full header.
FullFiles ==
    {[exists |-> TRUE, columns |-> AllColumns, lines |-> Numbered(ls)] :
        ls \in SeqsUpTo(Lines, MaxRows)}

Drop(line, col) == [c \in (DOMAIN line) \ {col} |-> line[c]]

\* The same two-line file with one column of the header left out.
ShortFiles ==
    {[exists |-> TRUE, columns |-> AllColumns \ {col},
      lines |-> [i \in 1..2 |->
          Drop(Numbered(<<GoodLine("Asia", "Japan", <<"2", "5">>),
                          GoodLine("Europe", "France", <<"5">>)>>)[i], col)]] :
        col \in AllColumns}

NoFile == [exists |-> FALSE, columns |-> {}, lines |-> <<>>]

Sources == FullFiles \cup ShortFiles \cup {NoFile}

\* ------------------------------------------------------------- load_data

\* pd.read_csv: one row per line, labelled 0, 1, ...; an empty text cell
\* is read as missing.
read_csv(src) ==
    [columns |-> src.columns,
     rows |-> [i \in 1..Len(src.lines) |->
         [idx |-> i - 1,
          c |-> [col \in src.columns |->
              IF col \in CatCols /\ src.lines[i][col] = ""
              THEN NA ELSE src.lines[i][col]]]]]

\* The mapping given to DataFrame.rename; other columns keep their name.
Renamed(col) ==
    CASE col = "Sales ($billion)" -> "Sales"
      [] col = "Profits ($billion)" -> "Profits"
      [] col = "Assets ($billion)" -> "Assets"
      [] col = "Market Value ($billion)" -> "MarketValue"
      [] OTHER -> col

rename(data) ==
    [columns |-> {Renamed(col) : col \in data.columns},
     rows |-> [i \in 1..Len(data.rows) |->
         [idx |-> data.rows[i].idx,
          c |-> [k \in {Renamed(col) : col \in data.columns} |->
              data.rows[i].c[CHOOSE col \in data.columns : Renamed(col) = k]]]]]

num_cols == <<"Sales", "Profits", "Assets", "MarketValue",
              "Latitude_final", "Longitude_final">>

RECURSIVE DigitsValue(_)
\* The number a string of digits denotes.
DigitsValue(ds) ==
    IF ds = <<>> THEN 0
    ELSE 10 * DigitsValue(SubSeq(ds, 1, Len(ds) - 1)) + DigitVal[ds[Len(ds)]]

\* Whether the cell is a decimal numeral: an optional sign, digits, at
\* most one point, at least one digit.
IsNumeral(cell) ==
    LET body == IF cell # <<>> /\ cell[1] = "-" THEN Tail(cell) ELSE cell
    IN  /\ \A i \in 1..Len(body) : body[i] \in Digits \cup {"."}
        /\ Cardinality({i \in 1..Len(body) : body[i] = "."}) <= 1
        /\ \E i \in 1..Len(body) : body[i] \in Digits

\* The value of a numeral, in tenths.
NumeralValue(cell) ==
    LET neg == cell[1] = "-"
        body == IF neg THEN Tail(cell) ELSE cell
        dots == {i \in 1..Len(body) : body[i] = "."}
        dot == IF dots = {} THEN Len(body) + 1 ELSE CHOOSE i \in dots : TRUE
        whole == DigitsValue(SubSeq(body, 1, dot - 1))
        tenth == IF dot < Len(body) THEN DigitVal[body[dot + 1]] ELSE 0
        mag == 10 * whole + tenth
    IN  IF neg THEN 0 - mag ELSE mag

\* to_numeric that does not read a sign.
to_numeric_unsigned(cell) ==
    IF IsNumeral(cell) /\ cell[1] # "-" THEN Present(NumeralValue(cell)) ELSE NaN

\* pd.to_numeric(errors="coerce") on one cell: the number, or NaN when the
\* cell does not parse.
to_numeric(cell) ==
    IF IsNumeral(cell) THEN Present(NumeralValue(cell)) ELSE NaN

\* tidy_df[num_cols].apply(pd.to_numeric, errors="coerce")
coerce(data) ==
    [columns |-> data.columns,
     rows |-> [i \in 1..Len(data.rows) |->
         [idx |-> data.rows[i].idx,
          c |-> [k \in data.columns |->
              IF k \in Range(num_cols) THEN to_numeric(data.rows[i].c[k])
              ELSE data.rows[i].c[k]]]]]

GeoComplete(row) == row.c["Latitude_final"].ok /\ row.c["Longitude_final"].ok

\* dropna with subset=["Latitude_final"] only.
dropna_geo_latitude(data) ==
    Mask(data, SelectSeq(data.rows, LAMBDA r : r.c["Latitude_final"].ok))

\* tidy_df.dropna(subset=["Latitude_final", "Longitude_final"])
dropna_geo(data) == Mask(data, SelectSeq(data.rows, GeoComplete))

\* load_data whose handler does not stop the run: the code after the try
\* block fails on the unbound raw_df.
load_data_unhandled(src, drop_na_geo) ==
    IF ~src.exists \/ ~(Range(num_cols) \subseteq rename(read_csv(src)).columns)
    THEN [outcome |-> "raised", raw_df |-> EmptyFrame, tidy_df |-> EmptyFrame]
    ELSE [outcome |-> "ok", raw_df |-> read_csv(src),
          tidy_df |-> IF drop_na_geo THEN dropna_geo(coerce(rename(read_csv(src))))
                      ELSE coerce(rename(read_csv(src)))]

\* load_data: what the script gets back, or how the call ended.
\*   "stopped"  st.error and st.stop after FileNotFoundError
\*   "raised" tidy_df[num_cols] on a frame lacking one of the columns
load_data(src, drop_na_geo) ==
    IF ~src.exists
    THEN [outcome |-> "stopped", raw_df |-> EmptyFrame, tidy_df |-> EmptyFrame]
    ELSE LET raw == read_csv(src)
             tidy == rename(raw)
         IN  IF ~(Range(num_cols) \subseteq tidy.columns)
             THEN [outcome |-> "raised", raw_df |-> EmptyFrame,
                   tidy_df |-> EmptyFrame]
             ELSE [outcome |-> "ok", raw_df |-> raw,
                   tidy_df |-> IF drop_na_geo THEN dropna_geo(coerce(tidy))
                               ELSE coerce(tidy)]

\* ----------------------------------------------------------- filter_data

\* filter_data whose "All" branch keeps only the rows that have a continent.
filter_data_dropna(data, continent, country) ==
    LET by_continent ==
            IF continent = All
            THEN Mask(data,
                SelectSeq(data.rows, LAMBDA r : r.c["Continent"] # NA))
            ELSE Mask(data,
                SelectSeq(data.rows, LAMBDA r : r.c["Continent"] = continent))
        by_country ==
            IF country = All THEN by_continent
            ELSE Mask(by_continent,
                SelectSeq(by_continent.rows, LAMBDA r : r.c["Country"] = country))
    IN  <<by_continent, by_country>>

\* filter_data whose country filter reads the unfiltered dataset.
filter_data_flat(data, continent, country) ==
    LET by_continent ==
            IF continent = All THEN data
            ELSE Mask(data,
                SelectSeq(data.rows, LAMBDA r : r.c["Continent"] = continent))
        by_country ==
            IF country = All THEN by_continent
            ELSE Mask(data,
                SelectSeq(data.rows, LAMBDA r : r.c["Country"] = country))
    IN  <<by_continent, by_country>>

\* filter_data(data, continent=..., country=...): the continent view and,
\* cut from it, the country view.
filter_data(data, continent, country) ==
    LET by_continent ==
            IF continent = All THEN data
            ELSE Mask(data,
                SelectSeq(data.rows, LAMBDA r : r.c["Continent"] = continent))
        by_country ==
            IF country = All THEN by_continent
            ELSE Mask(by_continent,
                SelectSeq(by_continent.rows, LAMBDA r : r.c["Country"] = country))
    IN  <<by_continent, by_country>>

\* The threshold with > in place of >=.
threshold_strict(data, mv) ==
    Mask(data,
                SelectSeq(data.rows, LAMBDA r : r.c["MarketValue"].ok /\ r.c["MarketValue"].v > mv))

\* country_df[country_df["MarketValue"] >= min_mv]; a comparison with NaN
\* is false.
threshold(data, mv) ==
    Mask(data,
                SelectSeq(data.rows, LAMBDA r : r.c["MarketValue"].ok /\ r.c["MarketValue"].v >= mv))

\* The dict comprehension without dropna(): NaN becomes a key, and no row
\* equals NaN.
count_by_continent_keepna(data) ==
    [k \in {data.rows[i].c["Continent"] : i \in 1..Len(data.rows)} |->
        IF k = NA THEN 0
        ELSE Cardinality({i \in 1..Len(data.rows) : data.rows[i].c["Continent"] = k})]

\* The dict comprehension over raw_df["Continent"].dropna().unique().
count_by_continent(data) ==
    [k \in {data.rows[i].c["Continent"] : i \in 1..Len(data.rows)} \ {NA} |->
        Cardinality({i \in 1..Len(data.rows) : data.rows[i].c["Continent"] = k})]

\* ["All"] + sorted(data[col].dropna().unique())
options(data, col, order) ==
    <<All>> \o SelectSeq(order,
        LAMBDA n : \E i \in 1..Len(data.rows) : data.rows[i].c[col] = n)

\* The slider's step, 10.0.
SliderStep == 100

\* float(df["MarketValue"].max()): NaN when no value is present.
max_market_value(data) ==
    LET present == {data.rows[i].c["MarketValue"].v : i \in
                       {j \in 1..Len(data.rows) : data.rows[j].c["MarketValue"].ok}}
    IN  IF present = {} THEN NaN
        ELSE Present(CHOOSE m \in present : \A x \in present : x <= m)

\* The positions of a slider from 0.0 to mx in steps of 10.0.
slider_values(mx) == {k * SliderStep : k \in 0..(mx \div SliderStep)}

\* ------------------------------------------------------- one script run
\* A frame is the interpreter's state during one run of the script: how far
\* it got ("running", then "ok", "stopped" after st.stop, "error" after an
\* uncaught exception), the global names bound so far, their values, and
\* the elements sent to the page.

Start(cc, kc, mv) ==
    [status |-> "running", bound |-> {}, rendered |-> <<>>,
     raw_df |-> EmptyFrame, df |-> EmptyFrame, continent_counts |-> <<>>,
     continents |-> <<>>, countries |-> <<>>, continent_df |-> EmptyFrame,
     region_df |-> EmptyFrame, country_df |-> EmptyFrame,
     continent_choice |-> cc, country_choice |-> kc, min_mv |-> mv]

Show(f, element) == [f EXCEPT !.rendered = Append(@, element)]

\* An uncaught exception ends the run; Streamlit prints the traceback.
Raise(f) == [Show(f, "traceback") EXCEPT !.status = "error"]

\* st.set_page_config and the CSS block.
page_config(f) == Show(f, "style")

\* _, df = load_data(); raw_df, _ = load_data(drop_na_geo=False)
load_step(f, first, second) ==
    IF f.status # "running" THEN f
    ELSE CASE first.outcome = "stopped" ->
                [Show(f, "error: CSV not found") EXCEPT !.status = "stopped"]
           [] first.outcome = "raised" -> Raise(f)
           [] OTHER ->
                [f EXCEPT !.df = first.tidy_df, !.raw_df = second.raw_df,
                          !.bound = @ \cup {"df", "raw_df"}]

\* continent_counts = {...}
counts_step(f) ==
    IF f.status # "running" THEN f
    ELSE IF "Continent" \notin f.raw_df.columns THEN Raise(f)
    ELSE [f EXCEPT !.continent_counts = count_by_continent(f.raw_df),
                   !.bound = @ \cup {"continent_counts"}]

\* A select box returns the widget's value when it is one of the options
\* and the first option otherwise.
selectbox(opts, value) == IF value \in Range(opts) THEN value ELSE opts[1]

\* The options of the continent select box.
continent_options(f) ==
    IF f.status = "running"
    THEN options(f.df, "Continent", ContinentOrder) ELSE <<>>

\* The sidebar header and the continent select box.
continent_step(f, opts) ==
    IF f.status # "running" THEN f
    ELSE [Show(Show(f, "sidebar.header"), "selectbox: Continent") EXCEPT
             !.continents = opts,
             !.continent_choice = selectbox(opts, f.continent_choice),
             !.bound = @ \cup {"continents", "continent_choice"}]

\* continent_df, _ = filter_data(df, continent=continent_choice)
first_filter_step(f) ==
    IF f.status # "running" THEN f
    ELSE [f EXCEPT !.continent_df = filter_data(f.df, f.continent_choice, All)[1],
                   !.bound = @ \cup {"continent_df"}]

\* The country options taken from the whole dataset.
country_options_global(f) ==
    IF f.status = "running" /\ "Country" \in f.continent_df.columns
    THEN options(f.df, "Country", CountryOrder) ELSE <<>>

\* The options of the country select box.
country_options(f) ==
    IF f.status = "running" /\ "Country" \in f.continent_df.columns
    THEN options(f.continent_df, "Country", CountryOrder) ELSE <<>>

\* The country select box, over the countries of the continent view.
country_step(f, opts) ==
    IF f.status # "running" THEN f
    ELSE IF "Country" \notin f.continent_df.columns THEN Raise(f)
    ELSE [Show(f, "selectbox: Country") EXCEPT
             !.countries = opts,
             !.country_choice = selectbox(opts, f.country_choice),
             !.bound = @ \cup {"countries", "country_choice"}]

\* The slider from 0.0 to the largest market value.  With no market value
\* present the upper end is NaN, which the slider takes or rejects.
slider_step(f, mx, nan_ok) ==
    IF f.status # "running" THEN f
    ELSE IF ~mx.ok /\ ~nan_ok THEN Raise(f)
    ELSE [Show(f, "slider: Min Market Value") EXCEPT
             !.min_mv = IF f.min_mv \in slider_values(mx.v) THEN f.min_mv ELSE 0,
             !.bound = @ \cup {"min_mv"}]

\* filter_data(df, continent=continent_choice, country=country_choice)
cascade(f) ==
    IF f.status = "running"
    THEN filter_data(f.df, f.continent_choice, f.country_choice)
    ELSE <<EmptyFrame, EmptyFrame>>

\* continent_df, country_df = ...; then the threshold.
filter_step(f, views) ==
    IF f.status # "running" THEN f
    ELSE [f EXCEPT !.continent_df = views[1], !.region_df = views[2],
                   !.country_df = threshold(views[2], f.min_mv),
                   !.bound = @ \cup {"country_df"}]

\* st.title and the KPI row; st.columns rejects a count of zero.
kpi_step(f) ==
    IF f.status # "running" THEN f
    ELSE LET f1 == Show(f, "title")
         IN  IF DOMAIN f.continent_counts = {} THEN Raise(f1)
             ELSE Show(f1, "kpi")

\* [VIZ1] bar chart of the continent view's largest market values.
bar_step(f) ==
    IF f.status # "running" \/ Empty(f.continent_df) THEN f
    ELSE LET f1 == Show(f, "subheader: Top 10")
         IN  IF "Company" \notin f.df.columns THEN Raise(f1)
             ELSE Show(f1, "bar chart")

\* [VIZ2] bubble chart of the filtered rows.
scatter_step(f) ==
    IF f.status # "running" \/ Empty(f.country_df) THEN f
    ELSE Show(Show(f, "subheader: Sales vs Profits"), "bubble chart")

\* [VIZ3] box plot of the whole tidy dataset.
box_step(f, empty_ok) ==
    IF f.status # "running" THEN f
    ELSE LET f1 == Show(f, "subheader: Market Value by Continent")
         IN  IF Empty(f.df) /\ ~empty_ok THEN Raise(f1)
             ELSE Show(f1, "box plot")

\* [MAP] headquarters of the continent view.
map_step(f) ==
    IF f.status # "running" \/ Empty(f.continent_df) THEN f
    ELSE Show(Show(f, "subheader: Map"), "map")

\* [DA6] pivot table over the whole tidy dataset.
pivot_step(f) ==
    IF f.status # "running" THEN f
    ELSE Show(Show(f, "subheader: Average Market Value"), "pivot table")

\* The table of the filtered rows.
table_step(f) ==
    IF f.status # "running" THEN f
    ELSE LET f1 == Show(f, "subheader: Companies Matching")
         IN  IF ~({"Global Rank", "Company"} \subseteq f.df.columns) THEN Raise(f1)
             ELSE Show(f1, "results table")

finish(f) == IF f.status = "running" THEN [f EXCEPT !.status = "ok"] ELSE f

\* What a library may do with a degenerate argument (a NaN slider bound,
\* a plot of no rows): take it, or raise.
Takes(degenerate) == IF degenerate THEN BOOLEAN ELSE {TRUE}

\* ------------------------------------------------------------- the session

Init ==
    /\ source \in Sources
    /\ status = "init"
    /\ continent_choice = All
    /\ country_choice = All
    /\ min_mv = 0
    /\ bound = {}
    /\ rendered = <<>>
    /\ raw_df = EmptyFrame
    /\ df = EmptyFrame
    /\ continent_counts = <<>>
    /\ continents = <<>>
    /\ countries = <<>>
    /\ continent_df = EmptyFrame
    /\ region_df = EmptyFrame
    /\ country_df = EmptyFrame

\* One execution of the script, from its first line to its last, for the
\* widget values the browser sent; everything but the file is rebuilt.
Run(cc, kc, mv) ==
    \E first \in {load_data(source, TRUE)} :
    \E second \in {load_data(source, FALSE)} :
    \E loaded \in {load_step(page_config(Start(cc, kc, mv)), first, second)} :
    \E counted \in {counts_step(loaded)} :
    \E conts \in {continent_options(counted)} :
    \E viewed \in {first_filter_step(continent_step(counted, conts))} :
    \E ctrs \in {country_options(viewed)} :
    \E boxes \in {country_step(viewed, ctrs)} :
    \E mx \in {max_market_value(boxes.df)} :
    \E nan_ok \in Takes(~mx.ok) :
    \E chosen \in {slider_step(boxes, mx, nan_ok)} :
    \E views \in {cascade(chosen)} :
    \E filtered \in {filter_step(chosen, views)} :
    \E charted \in {scatter_step(bar_step(kpi_step(filtered)))} :
    \E empty_ok \in Takes(Empty(charted.df)) :
    \E boxed \in {box_step(charted, empty_ok)} :
    \E f \in {finish(table_step(pivot_step(map_step(boxed))))} :
        /\ status' = f.status
        /\ bound' = f.bound
        /\ rendered' = f.rendered
        /\ raw_df' = f.raw_df
        /\ df' = f.df
        /\ continent_counts' = f.continent_counts
        /\ continents' = f.continents
        /\ countries' = f.countries
        /\ continent_df' = f.continent_df
        /\ region_df' = f.region_df
        /\ country_df' = f.country_df
        /\ continent_choice' = f.continent_choice
        /\ country_choice' = f.country_choice
        /\ min_mv' = f.min_mv
        /\ UNCHANGED source

\* The page is opened: the first run, every widget at its default.
FirstRun ==
    /\ status = "init"
    /\ Run(All, All, 0)

\* The user picks another continent.  The country box keeps its value only
\* if Streamlit still takes it for the same widget.
SelectContinent ==
    /\ "selectbox: Continent" \in Range(rendered)
    /\ \E cc \in Range(continents) \ {continent_choice} :
           \E kc \in {country_choice, All} : Run(cc, kc, min_mv)

\* The user picks another country.
SelectCountry ==
    /\ "selectbox: Country" \in Range(rendered)
    /\ \E kc \in Range(countries) \ {country_choice} :
           Run(continent_choice, kc, min_mv)

\* The user moves the slider.
MoveSlider ==
    /\ "slider: Min Market Value" \in Range(rendered)
    /\ \E mv \in slider_values(max_market_value(df).v) \ {min_mv} :
           Run(continent_choice, country_choice, mv)

Next == FirstRun \/ SelectContinent \/ SelectCountry \/ MoveSlider

Spec == Init /\ [][Next]_vars

\* ------------------------------------------------------------- properties

Rows(data) == Range(data.rows)

\* The rows of view are rows of data, in data's order.
SubFrame(view, data) ==
    view.rows = SelectSeq(data.rows, LAMBDA r : r \in Rows(view))

Selectors(order) == {All} \cup Range(order)

Matches(r, col, selector) == selector = All \/ r.c[col] = selector

Loaded == "df" \in bound

Filtered == "country_df" \in bound

\* C1: for every pair of selectors, the rows of the country view are rows of
\* the continent view, which are rows of the dataset, and with continent
\* "All" the continent view is the dataset itself; so are the views the
\* script holds.
C1_ViewsNested ==
    Loaded /\ {"Continent", "Country"} \subseteq df.columns =>
        /\ \A cc \in Selectors(ContinentOrder), kc \in Selectors(CountryOrder) :
               \A v \in {filter_data(df, cc, kc)} :
                   /\ Rows(v[2]) \subseteq Rows(v[1])
                   /\ Rows(v[1]) \subseteq Rows(df)
                   /\ cc = All => v[1] = df
        /\ Filtered =>
               /\ Rows(region_df) \subseteq Rows(continent_df)
               /\ Rows(continent_df) \subseteq Rows(df)
               /\ continent_choice = All => continent_df = df

\* C1 witness: continent "All" with a specific country that leaves some
\* rows out, among them a row without a continent.
C1_Witness ==
    /\ status = "ok" /\ continent_choice = All /\ country_choice # All
    /\ region_df.rows # <<>>
    /\ Len(region_df.rows) < Len(continent_df.rows)
    /\ \E r \in Rows(df) : r.c["Continent"] = NA

\* C2: the continent view is exactly the rows matching the continent
\* selector, the country view exactly the rows of the continent view
\* matching the country selector, both in the dataset's order; hence a row
\* is in the country view iff it matches both selectors.
C2_Cascade ==
    Loaded /\ {"Continent", "Country"} \subseteq df.columns =>
        /\ \A cc \in Selectors(ContinentOrder), kc \in Selectors(CountryOrder) :
               \A v \in {filter_data(df, cc, kc)} :
                   /\ Rows(v[1]) = {r \in Rows(df) : Matches(r, "Continent", cc)}
                   /\ Rows(v[2]) = {r \in Rows(v[1]) : Matches(r, "Country", kc)}
                   /\ Rows(v[2]) = {r \in Rows(df) : /\ Matches(r, "Continent", cc)
                                                     /\ Matches(r, "Country", kc)}
                   /\ SubFrame(v[1], df) /\ SubFrame(v[2], v[1])
        /\ Filtered =>
               /\ Rows(continent_df) =
                      {r \in Rows(df) : Matches(r, "Continent", continent_choice)}
               /\ Rows(region_df) =
                      {r \in Rows(df) : /\ Matches(r, "Continent", continent_choice)
                                        /\ Matches(r, "Country", country_choice)}

\* C2 witness: a continent and a country are selected, and the dataset has
\* a row of that country in another continent.
C2_Witness ==
    /\ status = "ok" /\ continent_choice # All /\ country_choice # All
    /\ region_df.rows # <<>>
    /\ \E r \in Rows(df) : /\ r.c["Country"] = country_choice
                           /\ r.c["Continent"] \notin {continent_choice, NA}

\* C3: every row of the tidy dataset has latitude and longitude, its rows
\* are rows of the raw dataset, and without drop_na_geo no row is removed.
C3_GeoComplete ==
    Loaded =>
        /\ \A r \in Rows(df) : r.c["Latitude_final"].ok /\ r.c["Longitude_final"].ok
        /\ Len(df.rows) <= Len(raw_df.rows)
        /\ Indices(df.rows) \subseteq Indices(raw_df.rows)
        /\ Cardinality(Indices(df.rows)) = Len(df.rows)
        /\ \A t \in {load_data(source, FALSE)} :
               /\ Len(t.tidy_df.rows) = Len(t.raw_df.rows)
               /\ Indices(t.tidy_df.rows) = Indices(raw_df.rows)

\* C3 witness: a load that dropped a row and kept another.
C3_Witness ==
    /\ status = "ok"
    /\ df.rows # <<>>
    /\ Len(df.rows) < Len(raw_df.rows)

\* C4: the threshold keeps exactly the rows of the region view whose market
\* value is present and at least the threshold, in their order.
C4_Threshold ==
    Filtered =>
        /\ Rows(country_df) =
               {r \in Rows(region_df) :
                   r.c["MarketValue"] # NaN /\ ~(r.c["MarketValue"].v < min_mv)}
        /\ SubFrame(country_df, region_df)
        /\ \A r \in Rows(region_df) :
               /\ r.c["MarketValue"] = NaN => r \notin Rows(country_df)
               /\ r.c["MarketValue"] = Present(min_mv) => r \in Rows(country_df)

\* C4 witness: a threshold of 10.0 over a region with a row of exactly 10.0
\* and a row without market value.
C4_Witness ==
    /\ status = "ok" /\ min_mv = SliderStep
    /\ \E r \in Rows(country_df) : r.c["MarketValue"] = Present(SliderStep)
    /\ \E r \in Rows(region_df) : r.c["MarketValue"] = NaN

\* C5: when the file does not exist the run shows the error and stops:
\* no dataset is bound, nothing is filtered, counted or rendered after it.
C5_MissingFileStops ==
    ~source.exists /\ status # "init" =>
        /\ status = "stopped"
        /\ bound = {}
        /\ rendered = <<"style", "error: CSV not found">>
        /\ raw_df = EmptyFrame /\ df = EmptyFrame
        /\ continent_df = EmptyFrame /\ country_df = EmptyFrame
        /\ DOMAIN continent_counts = {}

\* C5 witness: a run that was stopped.
C5_Witness == status = "stopped" /\ ~source.exists

\* C6: a file lacking a required column fails at the load: no dataset is
\* returned and nothing of the dashboard is rendered.
C6_MissingColumnFailsAtLoad ==
    source.exists /\ source.columns # AllColumns /\ status # "init" =>
        /\ ~Loaded
        /\ status \in {"stopped", "error"}
        /\ Range(rendered) \subseteq {"style", "error: CSV not found", "traceback"}

\* The numerals among the cells of the files, with their values in tenths.
Numerals ==
    (<<"5">> :> 50) @@ (<<"1", "0">> :> 100) @@ (<<"2", "5">> :> 250) @@
    (<<"2", "0">> :> 200) @@ (<<"-", "3">> :> 0 - 30) @@
    (<<"1", "5", ".", "5">> :> 155) @@ (<<"3", "5", ".", "6">> :> 356) @@
    (<<"-", "3", ".", "5">> :> 0 - 35)

\* C7: a file with every column loads whatever its cells hold; each numeric
\* cell that is a numeral keeps its value, every other becomes NaN, and a
\* numeric field of the tidy dataset is a float or NaN, never text.
C7_Coercion ==
    /\ source.exists /\ source.columns = AllColumns /\ status # "init" => Loaded
    /\ Loaded =>
           \A t \in {load_data(source, FALSE)} :
               /\ t.outcome = "ok"
               /\ \A i \in 1..Len(t.tidy_df.rows) : \A k \in Range(num_cols) :
                      \A cell \in {source.lines[i][CHOOSE col \in source.columns :
                                                       Renamed(col) = k]} :
                      \A val \in {t.tidy_df.rows[i].c[k]} :
                          /\ val \in [ok : BOOLEAN, v : Int]
                          /\ cell \in DOMAIN Numerals => val = Present(Numerals[cell])
                          /\ cell \notin DOMAIN Numerals => val = NaN
               /\ \A r \in Rows(df) : r \in Rows(t.tidy_df)

\* C7 witness: a loaded row with a malformed cell, an empty cell, a negative
\* and a decimal numeral.
C7_Witness ==
    /\ status = "ok"
    /\ \E r \in Rows(df) :
           /\ r.c["Sales"] = NaN /\ r.c["Profits"] = NaN
           /\ r.c["MarketValue"] = Present(100)
           /\ r.c["Longitude_final"] = Present(0 - 35)

RECURSIVE Sum(_, _)
Sum(f, S) ==
    IF S = {} THEN 0
    ELSE LET x == CHOOSE x \in S : TRUE IN f[x] + Sum(f, S \ {x})

\* C8: the keys of the count mapping are the continents present in the raw
\* dataset, each mapped to the number of its rows; rows without a continent
\* count nowhere, and no rows give the empty mapping.
C8_Counts ==
    "continent_counts" \in bound =>
        /\ DOMAIN continent_counts =
               {r.c["Continent"] : r \in Rows(raw_df)} \ {NA}
        /\ \A k \in DOMAIN continent_counts :
               continent_counts[k] =
                   Cardinality({r \in Rows(raw_df) : r.c["Continent"] = k})
        /\ Sum(continent_counts, DOMAIN continent_counts) =
               Cardinality({r \in Rows(raw_df) : r.c["Continent"] # NA})
        /\ raw_df.rows = <<>> => DOMAIN continent_counts = {}

\* C8 witness: counts over a dataset with a row that has no continent.
C8_Witness ==
    /\ status = "ok"
    /\ DOMAIN continent_counts # {}
    /\ \E r \in Rows(raw_df) : r.c["Continent"] = NA

\* C9: over a well-formed dataset that has market values, when the filters
\* leave no row the run still ends without error and the consumers of the
\* empty view (the bubble chart and the results table) render nothing.
C9_EmptyViewSkipped ==
    /\ source.columns = AllColumns /\ Filtered
    /\ max_market_value(df).ok /\ Empty(country_df)
    => /\ status = "ok"
       /\ "bubble chart" \notin Range(rendered)
       /\ "results table" \notin Range(rendered)

\* C10: the country options are "All" and the countries of the continent
\* view; the selected country is one of them; and with a continent or a
\* country selected the region view has rows.
C10_CountryOptions ==
    Filtered =>
        /\ countries[1] = All
        /\ Range(countries) =
               {All} \cup ({r.c["Country"] : r \in Rows(continent_df)} \ {NA})
        /\ Cardinality(Range(countries)) = Len(countries)
        /\ country_choice \in Range(countries)
        /\ country_choice # All =>
               \E r \in Rows(continent_df) : r.c["Country"] = country_choice
        /\ continent_choice # All \/ country_choice # All => ~Empty(region_df)
        /\ Empty(region_df) => Empty(df)

\* C10 witness: a continent and one of its countries selected while the
\* dataset holds a country the continent does not have.
C10_Witness ==
    /\ status = "ok" /\ continent_choice # All /\ country_choice # All
    /\ \E r \in Rows(df) : r.c["Country"] \notin Range(countries) \cup {NA}

====
